---- MODULE Spec2Model ----
(***************************************************************************)
(* Vantage Geo-AI: the asynchronous orchestration of the travel view       *)
(* (TravelAgent), the drone-video view (VeoGenerator) and the service      *)
(* layer (services/genai) they call.                                       *)
(*                                                                         *)
(* Texts are TLA+ strings.  A JavaScript null is NULL; a value that may be *)
(* null is NULL or a record or sequence.  The hosted service is the        *)
(* environment: every response it can give is drawn from a bounded set.    *)
(***************************************************************************)
EXTENDS Integers, Sequences, FiniteSets, TLC

NULL == [null |-> TRUE]

(***************************************************************************)
(* Bounds of the model.                                                    *)
(***************************************************************************)
\* searches (handleDeepPlan / handleHiddenSpots runs) started in one behaviour
MaxSearches == 2
\* chat messages sent in one behaviour
MaxChat == 2
\* longest upstream hidden-spot array whose items are fanned out in the view
MaxFanOut == 2
\* longest upstream hidden-spot array given to searchHiddenSpots on its own
MaxUpstream == 7
\* status queries a video job may answer "pending" to
MaxPending == 3
\* words in a raw error text given to formatError on its own
MaxWords == 3

(***************************************************************************)
(* String helpers: what String.prototype.includes and trim compute.        *)
(***************************************************************************)
includes(s, needle) ==
    \E i \in 1..(Len(s) - Len(needle) + 1) :
        SubSeq(s, i, i + Len(needle) - 1) = needle

IsSpace(c) == c \in {" ", "\t", "\n"}

RECURSIVE trimStart(_)
trimStart(s) ==
    IF Len(s) > 0 /\ IsSpace(SubSeq(s, 1, 1))
    THEN trimStart(SubSeq(s, 2, Len(s)))
    ELSE s

RECURSIVE trimEnd(_)
trimEnd(s) ==
    IF Len(s) > 0 /\ IsSpace(SubSeq(s, Len(s), Len(s)))
    THEN trimEnd(SubSeq(s, 1, Len(s) - 1))
    ELSE s

trim(s) == trimEnd(trimStart(s))

(***************************************************************************)
(* JSON.  The service answers a structured request with a text; the values *)
(* it may encode are the plans, the hidden-spot arrays and null below.     *)
(* stringify(v, pretty) writes a value as JSON.stringify does, compactly   *)
(* or with an indent of 2; JSONparse reads a text back, or fails.          *)
(***************************************************************************)
Months == <<"Jan", "Feb", "Mar", "Apr", "May", "Jun",
            "Jul", "Aug", "Sep", "Oct", "Nov", "Dec">>

Curve(n, score) == [i \in 1..n |-> [month |-> Months[i], score |-> score]]

Plan(confidence, overview, curve) ==
    [confidence |-> confidence, overview |-> overview,
     weather |-> [crowd_curve |-> curve]]

PlanKyoto == Plan("High", "Temples and hills", Curve(12, 45))
PlanShort == Plan("Low", "Unknown place", Curve(2, 150))

UpstreamPlans == {PlanKyoto, PlanShort}

SpotNames == {"a", "b"}

Spot(name) == [name |-> name, description |-> "about " \o name,
               location_hint |-> "near " \o name]

SpotArrays(maxLen) ==
    UNION {[1..n -> {Spot(x) : x \in SpotNames}] : n \in 0..maxLen}

Quote(s) == "\"" \o s \o "\""

RECURSIVE Spaces(_)
Spaces(n) == IF n = 0 THEN "" ELSE " " \o Spaces(n - 1)

\* the line break and indentation JSON.stringify(v, null, 2) puts at `depth`
Break(pretty, depth) == IF pretty THEN "\n" \o Spaces(2 * depth) ELSE ""

Colon(pretty) == IF pretty THEN ": " ELSE ":"

RECURSIVE JoinItems(_, _, _, _)
JoinItems(items, i, pretty, depth) ==
    IF i > Len(items) THEN ""
    ELSE Break(pretty, depth) \o items[i]
         \o (IF i < Len(items) THEN "," ELSE "")
         \o JoinItems(items, i + 1, pretty, depth)

Bracket(open, close, items, pretty, depth) ==
    IF Len(items) = 0 THEN open \o close
    ELSE open \o JoinItems(items, 1, pretty, depth + 1)
         \o Break(pretty, depth) \o close

Member(key, text, pretty) == Quote(key) \o Colon(pretty) \o text

stringifyCurveEntry(e, pretty, depth) ==
    Bracket("{", "}",
            <<Member("month", Quote(e.month), pretty),
              Member("score", ToString(e.score), pretty)>>, pretty, depth)

stringifyPlan(p, pretty) ==
    Bracket("{", "}",
      <<Member("confidence", Quote(p.confidence), pretty),
        Member("overview", Quote(p.overview), pretty),
        Member("weather",
          Bracket("{", "}",
            <<Member("crowd_curve",
                Bracket("[", "]",
                  [i \in 1..Len(p.weather.crowd_curve) |->
                      stringifyCurveEntry(p.weather.crowd_curve[i], pretty, 3)],
                  pretty, 2),
                pretty)>>,
            pretty, 1),
          pretty)>>,
      pretty, 0)

stringifySpot(g, pretty, depth) ==
    Bracket("{", "}",
            <<Member("name", Quote(g.name), pretty),
              Member("description", Quote(g.description), pretty),
              Member("location_hint", Quote(g.location_hint), pretty)>>,
            pretty, depth)

stringifySpots(spots, pretty) ==
    Bracket("[", "]",
            [i \in 1..Len(spots) |-> stringifySpot(spots[i], pretty, 1)],
            pretty, 0)

\* JSON.stringify(result, null, 2) of a parsed itinerary (a plan or null)
JSONstringify(v) == IF v = NULL THEN "null" ELSE stringifyPlan(v, TRUE)

\* every text that is the JSON of a value the service may encode, with its value
JSONtexts ==
    {<<"null", "null", NULL>>}
        \cup {<<stringifyPlan(p, FALSE), "object", p>> : p \in UpstreamPlans}
        \cup {<<stringifyPlan(p, TRUE), "object", p>> : p \in UpstreamPlans}
        \cup {<<stringifySpots(a, FALSE), "array", a>> : a \in SpotArrays(MaxUpstream)}

\* JSON.parse: the value a text encodes and what kind of value it is, or a
\* SyntaxError (ok = FALSE)
JSONparse(text) ==
    IF \E e \in JSONtexts : e[1] = text
    THEN LET e == CHOOSE e \in JSONtexts : e[1] = text
         IN  [ok |-> TRUE, kind |-> e[2], value |-> e[3]]
    ELSE [ok |-> FALSE, kind |-> "error", value |-> NULL]

(***************************************************************************)
(* services/genai.  A call of the service either throws (an Error with a   *)
(* message) or returns a response; a function of the service layer either  *)
(* returns a value or throws an Error with a message.                      *)
(***************************************************************************)
Returned(v) == [ok |-> TRUE, value |-> v, message |-> ""]
Thrown(msg) == [ok |-> FALSE, value |-> NULL, message |-> msg]

\* error?.message || error?.toString() || 'Unknown error' of an Error object
\* whose message is m: an empty message is falsy, and toString() is "Error"
ErrorText(m) == IF m # "" THEN m ELSE "Error"

\* the rules for 429 and 503 in the other order
formatErrorUnavailableFirst(m) ==
    LET msg == ErrorText(m) IN
    IF includes(msg, "API key") \/ includes(msg, "authentication")
    THEN "Authentication failed. Please check your API key settings."
    ELSE IF includes(msg, "503")
    THEN "Service overloaded or unavailable. Please try again later."
    ELSE IF includes(msg, "429")
    THEN "Rate limit exceeded. The API is busy, please wait a moment and try again."
    ELSE IF includes(msg, "SAFETY")
    THEN "The request was blocked due to safety settings."
    ELSE "AI Request Failed: " \o msg

formatError(m) ==
    LET msg == ErrorText(m) IN
    IF includes(msg, "API key") \/ includes(msg, "authentication")
    THEN "Authentication failed. Please check your API key settings."
    ELSE IF includes(msg, "429")
    THEN "Rate limit exceeded. The API is busy, please wait a moment and try again."
    ELSE IF includes(msg, "503")
    THEN "Service overloaded or unavailable. Please try again later."
    ELSE IF includes(msg, "SAFETY")
    THEN "The request was blocked due to safety settings."
    ELSE "AI Request Failed: " \o msg

\* a catch that formats the error it caught and formats the outcome again
CatchFormatTwice(r) ==
    IF r.ok THEN r ELSE Thrown(formatError(formatError(r.message)))

\* try { body } catch (error) { throw new Error(formatError(error)) }
CatchFormat(r) == IF r.ok THEN r ELSE Thrown(formatError(r.message))

\* the texts a failing call of the service may throw
RawErrors == {"fetch failed", "429 Too Many Requests"}

\* generateContent for a structured request: throws, or returns a text
TextResponses(texts) ==
    {Thrown(m) : m \in RawErrors} \cup {Returned(t) : t \in texts}

PlanTexts ==
    {"", "oops", "null", stringifyPlan(PlanKyoto, FALSE), stringifyPlan(PlanShort, TRUE)}

SpotTexts(maxLen) ==
    {"", "oops", "null", stringifyPlan(PlanShort, FALSE)}
        \cup {stringifySpots(a, FALSE) : a \in SpotArrays(maxLen)}

\* groundingChunks.forEach(chunk => { if (chunk.maps) {mapLink = ...; mapTitle = ...} })
\* starting from acc: the last chunk that carries a map wins
RECURSIVE forEachChunk(_, _)
forEachChunk(chunks, acc) ==
    IF Len(chunks) = 0 THEN acc
    ELSE forEachChunk(Tail(chunks),
             IF "maps" \in DOMAIN Head(chunks)
             THEN [mapLink |-> Head(chunks).maps.uri, mapTitle |-> Head(chunks).maps.title]
             ELSE acc)

\* what generateContent may answer to the location query: a text (or none) and,
\* possibly, grounding chunks of which some carry a map
MapChunk(n) == [maps |-> [uri |-> "https://maps/" \o n, title |-> n]]
WebChunk == [web |-> [uri |-> "https://web/1"]]
\* candidates?.[0]?.groundingMetadata?.groundingChunks: undefined (NULL), or an array
GroundingChunks ==
    {NULL} \cup {[chunks |-> c] :
                    c \in {<<>>, <<WebChunk>>, <<MapChunk("a")>>,
                           <<MapChunk("a"), WebChunk, MapChunk("b")>>}}
LocationAnswers ==
    {[text |-> t, groundingChunks |-> g] : t \in {"", "A city in Japan."}, g \in GroundingChunks}

searchLocationWithMaps(resp) ==
    CatchFormat(
        IF ~resp.ok THEN resp
        ELSE IF resp.value.text = "" THEN Thrown("No information found for this location.")
        ELSE LET found == IF resp.value.groundingChunks = NULL
                          THEN [mapLink |-> "", mapTitle |-> ""]
                          ELSE forEachChunk(resp.value.groundingChunks.chunks,
                                            [mapLink |-> "", mapTitle |-> ""])
             IN  Returned([text |-> resp.value.text,
                           mapLink |-> found.mapLink,
                           mapTitle |-> found.mapTitle]))

generateDeepTravelItinerary(resp) ==
    CatchFormat(
        IF ~resp.ok THEN resp
        ELSE IF resp.value = "" THEN Thrown("The model returned an empty response.")
        ELSE LET data == JSONparse(resp.value) IN
             IF data.ok THEN Returned(data.value)
             ELSE Thrown("Failed to parse the travel plan data."))

\* a copy that keeps every item
sliceAll(a, n) == a

\* Array.prototype.slice(0, n)
slice(a, n) == SubSeq(a, 1, IF Len(a) < n THEN Len(a) ELSE n)

MaxSpots == 5

searchHiddenSpots(resp) ==
    CatchFormat(
        IF ~resp.ok THEN resp
        ELSE IF resp.value = "" THEN Thrown("No results found for hidden spots.")
        ELSE LET spots == JSONparse(resp.value) IN
             \* slice is no method of an object or of null: the TypeError is
             \* caught with the SyntaxError
             IF spots.ok /\ spots.kind = "array"
             THEN Returned(slice(spots.value, MaxSpots))
             ELSE Thrown("Failed to parse hidden spots data."))

\* generateContent for an image request: throws, or returns parts of which
\* some may carry inline data
ImageResponses(data) ==
    {Thrown("fetch failed"), Returned(<<>>),
     Returned(<<[text |-> "here"], [inlineData |-> [data |-> data]]>>)}

\* for (const part of parts) if (part.inlineData) return `data:image/png;base64,${...}`
RECURSIVE firstInlineImage(_, _)
firstInlineImage(parts, i) ==
    IF i > Len(parts) THEN NULL
    ELSE IF "inlineData" \in DOMAIN parts[i]
    THEN [uri |-> "data:image/png;base64," \o parts[i].inlineData.data]
    ELSE firstInlineImage(parts, i + 1)

\* one preview request of generateLocationPreviews, and generateSpotImage:
\* the image, or null when the call throws or no part carries one
imageOrNull(resp) == IF resp.ok THEN firstInlineImage(resp.value, 1) ELSE NULL

\* results.filter(img => img !== null)
RECURSIVE filterNonNull(_)
filterNonNull(results) ==
    IF Len(results) = 0 THEN <<>>
    ELSE (IF Head(results) = NULL THEN <<>> ELSE <<Head(results)>>)
         \o filterNonNull(Tail(results))

\* a set that is given up as a whole when one request brings no image
generateLocationPreviewsAllOrNone(results) ==
    IF \E k \in 1..Len(results) : results[k] = NULL
    THEN Returned(<<>>)
    ELSE Returned(results)

\* generateLocationPreviews: the three results, nulls filtered out; never throws
generateLocationPreviews(results) == Returned(filterNonNull(results))

\* a request that answers a failure with a stock picture
generateSpotImagePlaceholder(resp) ==
    IF imageOrNull(resp) # NULL THEN imageOrNull(resp)
    ELSE [uri |-> "data:image/png;base64,stock"]

\* generateSpotImage: the image or null; never throws
generateSpotImage(resp) == imageOrNull(resp)

(***************************************************************************)
(* State.  The travel view (TravelAgent): its React state, its chat ref,   *)
(* and the calls of the service it has outstanding.                        *)
(***************************************************************************)
VARIABLES
    location, loading, mode, error, travelData, images, imagesLoading,
    hiddenSpots, hiddenSpotImages, chatRef, chatMessages, chatInput, chatLoading,
    textCalls,      \* structured requests outstanding (plan or hidden spots)
    previewCalls,   \* preview batches outstanding, each with its 3 results so far
    spotCalls,      \* per-spot image requests outstanding
    chatCalls,      \* chat requests outstanding
    searches,       \* searches started so far: the newest search's number
    sessions,       \* chat sessions created so far: the newest session's number
    chatsSent,      \* chat requests issued so far
    newest,         \* of the newest search: how its structured request and its
                    \* preview batch or spot-image requests have ended so far
    ev,             \* the handler or callback that ran last, and what it was given
    control         \* the control of the view the last step used, "" for a callback

viewVars == <<location, loading, mode, error, travelData, images, imagesLoading,
              hiddenSpots, hiddenSpotImages, chatRef, chatMessages, chatInput,
              chatLoading>>
callVars == <<textCalls, previewCalls, spotCalls, chatCalls>>
countVars == <<searches, sessions, chatsSent>>
travelVars == <<viewVars, callVars, countVars, newest, ev, control>>

\* The drone-video view (VeoGenerator) and the handleGenerate run in progress.
VARIABLES
    locationName, videoState, aspectRatio, loadingStep,
    vpc,          \* where handleGenerate is suspended: "idle" when it is not running
    run,          \* the locationName and aspectRatio the running handleGenerate was started with
    submitted,    \* the video job request of this run, or NULL
    operation,    \* the job handle generateDroneVideo holds, or NULL
    queries,      \* the handles passed to getVideosOperation in this run, in order
    replies,      \* the handles getVideosOperation returned in this run, in order
    timers,       \* the delays of the waits completed in this run, in order
    videoRuns,    \* handleGenerate runs started so far
    vev           \* the handler or callback of the video view that ran last, and
                  \* what it was given

videoVars == <<locationName, videoState, aspectRatio, loadingStep, vpc, run,
               submitted, operation, queries, replies, timers, videoRuns, vev>>

\* A function of the service layer applied on its own.
VARIABLES
    upstream,     \* the input drawn for the function: the array the service encodes
                  \* in its response, or the words of a raw error text
    applied,      \* whether the function has been applied
    result        \* what it returned, or NULL

pureVars == <<upstream, applied, result>>

\* The search view (LocationSearch) and the location App keeps for the other views.
VARIABLES
    query,           \* the text in the search input
    lsLoading,       \* loading of LocationSearch
    lsError,         \* error of LocationSearch
    lsResult,        \* result of LocationSearch
    currentLocation, \* currentLocation of App
    mapsCalls,       \* searchLocationWithMaps calls outstanding
    found,           \* the arguments onLocationFound has been called with, in order
    submits,         \* handleSearch runs that issued a request
    lev              \* the handler or callback of the search view that ran last

finderVars == <<query, lsLoading, lsError, lsResult, currentLocation, mapsCalls,
                found, submits, lev>>

vars == <<travelVars, videoVars, finderVars, pureVars>>

Locations == {"", "Kyoto"}
ChatInputs == {"", " ", "hi", " hi "}

PENDING == [pending |-> TRUE]

Err(message) == [message |-> message]

Greeting ==
    [role |-> "model",
     text |-> "I have analyzed the location. Ask me anything about the plan or the destination!"]

InitTravel ==
    /\ location \in Locations
    /\ loading = FALSE
    /\ mode = "plan"
    /\ error = NULL
    /\ travelData = NULL
    /\ images = <<>>
    /\ imagesLoading = FALSE
    /\ hiddenSpots = NULL
    /\ hiddenSpotImages = <<>>
    /\ chatRef = NULL
    /\ chatMessages = <<>>
    /\ chatInput = ""
    /\ chatLoading = FALSE
    /\ textCalls = {}
    /\ previewCalls = {}
    /\ spotCalls = {}
    /\ chatCalls = {}
    /\ searches = 0
    /\ sessions = 0
    /\ chatsSent = 0
    /\ newest = [kind |-> "none", location |-> "", text |-> "none", previews |-> "none",
                 results |-> <<>>]
    /\ control = ""
    /\ ev = [op |-> "init"]

\* a reset that leaves the chat ref alone
clearResultsKeepChat ==
    /\ travelData' = NULL
    /\ hiddenSpots' = NULL
    /\ hiddenSpotImages' = <<>>
    /\ images' = <<>>
    /\ error' = NULL
    /\ chatMessages' = <<>>
    /\ chatRef' = chatRef

clearResults ==
    /\ travelData' = NULL
    /\ hiddenSpots' = NULL
    /\ hiddenSpotImages' = <<>>
    /\ images' = <<>>
    /\ error' = NULL
    /\ chatMessages' = <<>>
    /\ chatRef' = NULL

createTravelChat(context) ==
    [id |-> sessions + 1,
     systemInstruction |->
        "You are a knowledgeable travel assistant. The user has just received a travel plan with the following details: \n      \n      "
        \o context
        \o "\n      \n      Answer their follow-up questions about this location, the itinerary, or travel advice. Keep answers helpful and concise."]

\* the synchronous part of handleDeepPlan, up to its await
handleDeepPlan ==
    IF location = ""
    THEN /\ UNCHANGED <<viewVars, callVars, countVars, newest>>
         /\ ev' = [op |-> "handleDeepPlan", started |-> FALSE]
    ELSE /\ loading' = TRUE
         /\ clearResults
         /\ mode' = "plan"
         /\ imagesLoading' = TRUE
         /\ previewCalls' = previewCalls \cup
                {[gen |-> searches + 1, location |-> location,
                  results |-> <<PENDING, PENDING, PENDING>>]}
         /\ textCalls' = textCalls \cup
                {[kind |-> "plan", gen |-> searches + 1, location |-> location]}
         /\ searches' = searches + 1
         /\ UNCHANGED <<location, chatInput, chatLoading, spotCalls, chatCalls,
                        sessions, chatsSent>>
         /\ newest' = [kind |-> "plan", location |-> location, text |-> "pending",
                        previews |-> "pending",
                        results |-> <<>>]
         /\ ev' = [op |-> "handleDeepPlan", started |-> TRUE]

\* the synchronous part of handleHiddenSpots, up to its await
handleHiddenSpots ==
    IF location = ""
    THEN /\ UNCHANGED <<viewVars, callVars, countVars, newest>>
         /\ ev' = [op |-> "handleHiddenSpots", started |-> FALSE]
    ELSE /\ loading' = TRUE
         /\ clearResults
         /\ mode' = "hidden"
         /\ textCalls' = textCalls \cup
                {[kind |-> "hidden", gen |-> searches + 1, location |-> location]}
         /\ searches' = searches + 1
         /\ UNCHANGED <<location, imagesLoading, chatInput, chatLoading,
                        previewCalls, spotCalls, chatCalls, sessions, chatsSent>>
         /\ newest' = [kind |-> "hidden", location |-> location, text |-> "pending",
                        previews |-> "none",
                        results |-> <<>>]
         /\ ev' = [op |-> "handleHiddenSpots", started |-> TRUE]

\* the rest of handleDeepPlan, run when its structured request `c` ends with `resp`
PlanTextDone(c, resp) ==
    LET r == generateDeepTravelItinerary(resp) IN
    /\ textCalls' = textCalls \ {c}
    /\ IF r.ok
       THEN /\ travelData' = r.value
            /\ chatRef' = createTravelChat(JSONstringify(r.value))
            /\ sessions' = sessions + 1
            /\ chatMessages' = <<Greeting>>
            /\ UNCHANGED error
       ELSE /\ error' = Err(IF r.message # "" THEN r.message
                            ELSE "An unexpected error occurred while generating the plan.")
            /\ UNCHANGED <<travelData, chatRef, sessions, chatMessages>>
    /\ loading' = FALSE
    /\ UNCHANGED <<location, mode, images, imagesLoading, hiddenSpots,
                   hiddenSpotImages, chatInput, chatLoading, previewCalls,
                   spotCalls, chatCalls, searches, chatsSent>>
    /\ newest' = IF c.gen = searches
                  THEN [newest EXCEPT !.text = IF ~r.ok THEN "failed"
                                               ELSE IF r.value = NULL THEN "null"
                                               ELSE "ok"]
                  ELSE newest
    /\ ev' = [op |-> "planText", gen |-> c.gen, resp |-> resp]

AllResolved(results) == \A i \in 1..Len(results) : results[i] # PENDING

\* a then-callback that takes the images only once the text has arrived
PreviewDoneAfterText(b, i, resp) ==
    LET results == [b.results EXCEPT ![i] = imageOrNull(resp)] IN
    /\ IF AllResolved(results)
       THEN LET r == generateLocationPreviews(results) IN
            /\ previewCalls' = previewCalls \ {b}
            /\ IF r.ok /\ ~loading
               THEN /\ images' = r.value
                    /\ imagesLoading' = FALSE
               ELSE UNCHANGED <<images, imagesLoading>>
       ELSE /\ previewCalls' = (previewCalls \ {b}) \cup {[b EXCEPT !.results = results]}
            /\ UNCHANGED <<images, imagesLoading>>
    /\ UNCHANGED <<location, loading, mode, error, travelData, hiddenSpots,
                   hiddenSpotImages, chatRef, chatMessages, chatInput, chatLoading,
                   textCalls, spotCalls, chatCalls, countVars>>
    /\ newest' = IF b.gen = searches /\ AllResolved(results)
                  THEN [newest EXCEPT !.previews = "resolved", !.results = results]
                  ELSE newest
    /\ ev' = [op |-> "preview", gen |-> b.gen, index |-> i, resp |-> resp,
              results |-> results]

\* request `i` of preview batch `b` ends with `resp`; when it is the last of
\* the three, Promise.all resolves and the then-callback of handleDeepPlan runs
PreviewDone(b, i, resp) ==
    LET results == [b.results EXCEPT ![i] = imageOrNull(resp)] IN
    /\ IF AllResolved(results)
       THEN LET r == generateLocationPreviews(results) IN
            /\ previewCalls' = previewCalls \ {b}
            /\ IF r.ok
               THEN /\ images' = r.value
                    /\ imagesLoading' = FALSE
               ELSE UNCHANGED <<images, imagesLoading>>
       ELSE /\ previewCalls' = (previewCalls \ {b}) \cup {[b EXCEPT !.results = results]}
            /\ UNCHANGED <<images, imagesLoading>>
    /\ UNCHANGED <<location, loading, mode, error, travelData, hiddenSpots,
                   hiddenSpotImages, chatRef, chatMessages, chatInput, chatLoading,
                   textCalls, spotCalls, chatCalls, countVars>>
    /\ newest' = IF b.gen = searches /\ AllResolved(results)
                  THEN [newest EXCEPT !.previews = "resolved", !.results = results]
                  ELSE newest
    /\ ev' = [op |-> "preview", gen |-> b.gen, index |-> i, resp |-> resp,
              results |-> results]

\* the rest of handleHiddenSpots, run when its structured request `c` ends
HiddenTextDone(c, resp) ==
    LET r == searchHiddenSpots(resp) IN
    /\ textCalls' = textCalls \ {c}
    /\ IF r.ok
       THEN /\ hiddenSpots' = r.value
            /\ spotCalls' = spotCalls \cup
                   {[gen |-> c.gen, index |-> i, name |-> r.value[i].name,
                     location |-> c.location] : i \in 1..Len(r.value)}
            /\ UNCHANGED error
       ELSE /\ error' = Err(IF r.message # "" THEN r.message
                            ELSE "An unexpected error occurred while searching.")
            /\ UNCHANGED <<hiddenSpots, spotCalls>>
    /\ loading' = FALSE
    /\ UNCHANGED <<location, mode, travelData, images, imagesLoading,
                   hiddenSpotImages, chatRef, chatMessages, chatInput, chatLoading,
                   previewCalls, chatCalls, countVars>>
    /\ newest' = IF c.gen = searches
                  THEN [newest EXCEPT !.text = IF r.ok THEN "ok" ELSE "failed",
                                      !.results = IF r.ok
                                                  THEN [i \in 1..Len(r.value) |-> PENDING]
                                                  ELSE <<>>]
                  ELSE newest
    /\ ev' = [op |-> "hiddenText", gen |-> c.gen, resp |-> resp]

\* a setter that replaces the map by the new entry alone
withEntryOnly(prev, name, imgUrl) == [k \in {name} |-> imgUrl]

\* prev => ({...prev, [name]: imgUrl})
withEntry(prev, name, imgUrl) ==
    [k \in DOMAIN prev \cup {name} |-> IF k = name THEN imgUrl ELSE prev[k]]

\* the then-callback of one generateSpotImage call
SpotImageDone(c, resp) ==
    LET imgUrl == generateSpotImage(resp) IN
    /\ spotCalls' = spotCalls \ {c}
    /\ IF imgUrl # NULL
       THEN hiddenSpotImages' = withEntry(hiddenSpotImages, c.name, imgUrl)
       ELSE UNCHANGED hiddenSpotImages
    /\ UNCHANGED <<location, loading, mode, error, travelData, images,
                   imagesLoading, hiddenSpots, chatRef, chatMessages, chatInput,
                   chatLoading, textCalls, previewCalls, chatCalls, countVars>>
    /\ newest' = IF c.gen = searches
                  THEN [newest EXCEPT !.results[c.index] = imgUrl]
                  ELSE newest
    /\ ev' = [op |-> "spotImage", gen |-> c.gen, name |-> c.name, resp |-> resp]

\* the guard without its trim()
canSendUntrimmed(input, ref) == input # "" /\ ref # NULL

\* if (!chatInput.trim() || !chatRef.current) return
canSend(input, ref) == trim(input) # "" /\ ref # NULL

\* the synchronous part of handleSendMessage, up to its await
handleSendMessage ==
    IF ~canSend(chatInput, chatRef)
    THEN /\ UNCHANGED <<viewVars, callVars, countVars, newest>>
         /\ ev' = [op |-> "handleSendMessage", sent |-> FALSE]
    ELSE /\ chatInput' = ""
         /\ chatMessages' = Append(chatMessages, [role |-> "user", text |-> chatInput])
         /\ chatLoading' = TRUE
         /\ chatCalls' = chatCalls \cup
                {[session |-> chatRef.id, message |-> chatInput, n |-> chatsSent + 1]}
         /\ chatsSent' = chatsSent + 1
         /\ UNCHANGED <<location, loading, mode, error, travelData, images,
                        imagesLoading, hiddenSpots, hiddenSpotImages, chatRef,
                        textCalls, previewCalls, spotCalls, searches, sessions>>
         /\ UNCHANGED newest
         /\ ev' = [op |-> "handleSendMessage", sent |-> TRUE]

\* chat.sendMessage: throws, or returns a response whose text may be empty
ChatResponses(c) ==
    {Thrown("fetch failed"), Returned(""),
     Returned("answer " \o ToString(c.n) \o " of session " \o ToString(c.session))}

\* a handler that shows the user the error it caught
modelReplyRaw(resp) ==
    IF ~resp.ok THEN resp.message
    ELSE IF resp.value # "" THEN resp.value
    ELSE "I couldn't generate a response."

\* the text of the model message handleSendMessage appends for `resp`
modelReply(resp) ==
    IF ~resp.ok THEN "Sorry, I encountered an error answering that."
    ELSE IF resp.value # "" THEN resp.value
    ELSE "I couldn't generate a response."

\* a completion that puts the model message at the head of the transcript
ChatDonePrepends(c, resp) ==
    /\ chatCalls' = chatCalls \ {c}
    /\ chatMessages' = <<[role |-> "model", text |-> modelReply(resp)]>> \o chatMessages
    /\ chatLoading' = FALSE
    /\ UNCHANGED <<location, loading, mode, error, travelData, images,
                   imagesLoading, hiddenSpots, hiddenSpotImages, chatRef, chatInput,
                   textCalls, previewCalls, spotCalls, countVars>>
    /\ UNCHANGED newest
    /\ ev' = [op |-> "chatDone", session |-> c.session, resp |-> resp]

\* the rest of handleSendMessage, run when its request `c` ends with `resp`
ChatDone(c, resp) ==
    /\ chatCalls' = chatCalls \ {c}
    /\ chatMessages' = Append(chatMessages, [role |-> "model", text |-> modelReply(resp)])
    /\ chatLoading' = FALSE
    /\ UNCHANGED <<location, loading, mode, error, travelData, images,
                   imagesLoading, hiddenSpots, hiddenSpotImages, chatRef, chatInput,
                   textCalls, previewCalls, spotCalls, countVars>>
    /\ UNCHANGED newest
    /\ ev' = [op |-> "chatDone", session |-> c.session, resp |-> resp]

(***************************************************************************)
(* The view: which controls are rendered and enabled.                      *)
(***************************************************************************)
\* search buttons without their disabled attribute
SearchButtonsNeverDisabled == TRUE

\* disabled={loading} of both search buttons
SearchButtonsEnabled == ~loading
RetryRendered == ~loading /\ error # NULL
ChatFormRendered == ~loading /\ error = NULL /\ mode = "plan" /\ travelData # NULL
SendButtonEnabled == ~chatLoading /\ trim(chatInput) # ""

\* the data the image service returns for a request, marked with the search
\* that issued it
ImageData(gen, tag) == "g" \o ToString(gen) \o "/" \o tag

SetLocation(l) ==
    /\ l # location
    /\ location' = l
    /\ UNCHANGED <<loading, mode, error, travelData, images, imagesLoading,
                   hiddenSpots, hiddenSpotImages, chatRef, chatMessages, chatInput,
                   chatLoading, callVars, countVars>>
    /\ UNCHANGED newest
    /\ ev' = [op |-> "setLocation"]
    /\ control' = "location input"
    /\ UNCHANGED <<videoVars, finderVars, pureVars>>

SetChatInput(s) ==
    /\ ChatFormRendered
    /\ s # chatInput
    /\ chatInput' = s
    /\ UNCHANGED <<location, loading, mode, error, travelData, images, imagesLoading,
                   hiddenSpots, hiddenSpotImages, chatRef, chatMessages,
                   chatLoading, callVars, countVars>>
    /\ UNCHANGED newest
    /\ ev' = [op |-> "setChatInput"]
    /\ control' = "chat input"
    /\ UNCHANGED <<videoVars, finderVars, pureVars>>

ClickFullPlan ==
    /\ SearchButtonsEnabled /\ searches < MaxSearches /\ handleDeepPlan
    /\ control' = "Full Plan"
    /\ UNCHANGED <<videoVars, finderVars, pureVars>>

ClickHiddenSpots ==
    /\ SearchButtonsEnabled /\ searches < MaxSearches /\ handleHiddenSpots
    /\ control' = "Hidden Spots"
    /\ UNCHANGED <<videoVars, finderVars, pureVars>>

ClickRetry ==
    /\ RetryRendered
    /\ searches < MaxSearches
    /\ IF mode = "plan" THEN handleDeepPlan ELSE handleHiddenSpots
    /\ control' = "Retry"
    /\ UNCHANGED <<videoVars, finderVars, pureVars>>

SubmitChat ==
    /\ ChatFormRendered
    /\ SendButtonEnabled
    /\ chatsSent < MaxChat
    /\ handleSendMessage
    /\ control' = "chat form"
    /\ UNCHANGED <<videoVars, finderVars, pureVars>>

PlanResponses == TextResponses(PlanTexts)

HiddenResponses == TextResponses(SpotTexts(MaxFanOut))

PlanTextResolves ==
    /\ \E c \in textCalls : \E resp \in PlanResponses :
           c.kind = "plan" /\ PlanTextDone(c, resp)
    /\ control' = ""
    /\ UNCHANGED <<videoVars, finderVars, pureVars>>

HiddenTextResolves ==
    /\ \E c \in textCalls : \E resp \in HiddenResponses :
           c.kind = "hidden" /\ HiddenTextDone(c, resp)
    /\ control' = ""
    /\ UNCHANGED <<videoVars, finderVars, pureVars>>

PreviewResolves ==
    /\ \E b \in previewCalls : \E i \in 1..3 :
           /\ b.results[i] = PENDING
           /\ \E resp \in ImageResponses(ImageData(b.gen, ToString(i))) :
                  PreviewDone(b, i, resp)
    /\ control' = ""
    /\ UNCHANGED <<videoVars, finderVars, pureVars>>

SpotImageResolves ==
    /\ \E c \in spotCalls : \E resp \in ImageResponses(ImageData(c.gen, c.name)) :
           SpotImageDone(c, resp)
    /\ control' = ""
    /\ UNCHANGED <<videoVars, finderVars, pureVars>>

ChatResolves ==
    /\ \E c \in chatCalls : \E resp \in ChatResponses(c) : ChatDone(c, resp)
    /\ control' = ""
    /\ UNCHANGED <<videoVars, finderVars, pureVars>>

\* handleSendMessage called as a function, whatever the view renders
CallSendMessage ==
    /\ chatsSent < MaxChat /\ handleSendMessage
    /\ control' = ""
    /\ UNCHANGED <<videoVars, finderVars, pureVars>>

\* the searches and their image fan-outs; no chat message is sent
NextSearch ==
    \/ \E l \in Locations : SetLocation(l)
    \/ ClickFullPlan
    \/ ClickHiddenSpots
    \/ ClickRetry
    \/ PlanTextResolves
    \/ HiddenTextResolves
    \/ PreviewResolves
    \/ SpotImageResolves

\* the searches and the chat; the image requests stay unanswered
NextChat ==
    \/ \E l \in Locations : SetLocation(l)
    \/ \E s \in ChatInputs : SetChatInput(s)
    \/ ClickFullPlan
    \/ ClickHiddenSpots
    \/ ClickRetry
    \/ SubmitChat
    \/ PlanTextResolves
    \/ HiddenTextResolves
    \/ ChatResolves

\* as NextChat, with handleSendMessage also called directly
NextDirect ==
    \/ \E l \in Locations : SetLocation(l)
    \/ \E s \in ChatInputs : SetChatInput(s)
    \/ ClickFullPlan
    \/ ClickHiddenSpots
    \/ ClickRetry
    \/ CallSendMessage
    \/ PlanTextResolves
    \/ HiddenTextResolves
    \/ ChatResolves

(***************************************************************************)
(* The drone-video view (VeoGenerator) and the video pipeline of the       *)
(* service layer (generateReferenceImage, generateDroneVideo).             *)
(***************************************************************************)
\* handleGenerate runs started in one behaviour
MaxRuns == 2

LocationNames == {"", "Grand Canyon"}
AspectRatios == {"16:9", "9:16"}

InitVideo ==
    /\ locationName \in LocationNames
    /\ videoState = [status |-> "idle"]
    /\ aspectRatio = "16:9"
    /\ loadingStep = ""
    /\ vpc = "idle"
    /\ run = NULL
    /\ submitted = NULL
    /\ operation = NULL
    /\ queries = <<>>
    /\ replies = <<>>
    /\ timers = <<>>
    /\ videoRuns = 0
    /\ vev = [op |-> "init"]

startsWith(s, prefix) == Len(s) >= Len(prefix) /\ SubSeq(s, 1, Len(prefix)) = prefix

\* imageBase64.replace(/^data:image\/(png|jpeg|jpg);base64,/, "")
cleanBase64(imageBase64) ==
    IF \E t \in {"png", "jpeg", "jpg"} : startsWith(imageBase64, "data:image/" \o t \o ";base64,")
    THEN LET t == CHOOSE t \in {"png", "jpeg", "jpg"} :
                      startsWith(imageBase64, "data:image/" \o t \o ";base64,")
             n == Len("data:image/" \o t \o ";base64,")
         IN  SubSeq(imageBase64, n + 1, Len(imageBase64))
    ELSE imageBase64

\* a stage that answers a failure with a stock image
generateReferenceImageFallback(resp) ==
    IF resp.ok /\ firstInlineImage(resp.value, 1) # NULL
    THEN Returned(firstInlineImage(resp.value, 1).uri)
    ELSE Returned("data:image/png;base64,stock")

generateReferenceImage(resp) ==
    CatchFormat(
        IF ~resp.ok THEN resp
        ELSE LET img == firstInlineImage(resp.value, 1) IN
             IF img # NULL THEN Returned(img.uri) ELSE Thrown("No image generated"))

\* a job handle: the call that returned it (0 the submission, k the k-th status
\* query), whether the job is done, its error (or NULL) and its result URI (or "")
Handle(serial, done, err, uri) ==
    [serial |-> serial, done |-> done, error |-> err, uri |-> uri]

JobErrorTexts ==
    {"Quota exceeded", "", "Blocked: SAFETY", "backend 503", "429 quota", "bad API key"}

\* the handles the service may return from call number `serial` of a run
Handles(serial) ==
    {Handle(serial, TRUE, NULL, "https://video/1?alt=media"), Handle(serial, TRUE, NULL, "")}
        \cup {Handle(serial, TRUE, [message |-> m], "") : m \in JobErrorTexts}
        \cup (IF serial < MaxPending THEN {Handle(serial, FALSE, NULL, "")} ELSE {})

\* while (!operation.done)
pollAgain(op) == ~op.done

\* a loop that drops the reply and keeps the handle it already holds
nextOperationStale(op, reply) == op

\* operation = await getVideosOperation({operation: operation})
nextOperation(op, reply) == reply

\* the fallback text alone, whatever the job reports
jobErrorTextFixed(op) == "Video generation failed"

\* operation.error.message || "Video generation failed"
jobErrorText(op) ==
    IF op.error.message # "" THEN op.error.message ELSE "Video generation failed"

\* generateDroneVideo once the loop has ended: the job's failure, or the link to fetch
afterPolling(op) ==
    IF op.error # NULL THEN Thrown(jobErrorText(op))
    ELSE IF op.uri = "" THEN Thrown("No video URI returned")
    ELSE Returned(op.uri)

PollInterval == 5000

\* a catch that clears the step text and leaves the status as it is
failGenerateSilent(r) ==
    /\ videoState' = videoState
    /\ loadingStep' = ""
    /\ vpc' = "idle"

\* catch (error) of handleGenerate, and its finally
failGenerate(r) ==
    /\ videoState' = [status |-> "error",
                      error |-> IF r.message # "" THEN r.message ELSE "Generation failed"]
    /\ loadingStep' = ""
    /\ vpc' = "idle"

\* generateDroneVideo at the head of its loop, holding the handle `op`
loopHead(op) ==
    IF pollAgain(op)
    THEN /\ vpc' = "wait"
         /\ UNCHANGED <<videoState, loadingStep>>
    ELSE LET r == CatchFormat(afterPolling(op)) IN
         IF r.ok
         THEN /\ vpc' = "fetch"
              /\ UNCHANGED <<videoState, loadingStep>>
         ELSE failGenerate(r)

\* a start that shows the step text and leaves the status as it is
handleGenerateKeepsStatus ==
    IF locationName = ""
    THEN UNCHANGED videoVars
    ELSE /\ videoState' = videoState
         /\ loadingStep' = "Locating and capturing view (Image)..."
         /\ vpc' = "image"
         /\ run' = [locationName |-> locationName, aspectRatio |-> aspectRatio]
         /\ submitted' = NULL
         /\ operation' = NULL
         /\ queries' = <<>>
         /\ replies' = <<>>
         /\ timers' = <<>>
         /\ videoRuns' = videoRuns + 1
         /\ vev' = [op |-> "handleGenerate"]
         /\ UNCHANGED <<locationName, aspectRatio>>

\* the synchronous part of handleGenerate, up to its first await
handleGenerate ==
    IF locationName = ""
    THEN UNCHANGED videoVars
    ELSE /\ videoState' = [status |-> "generating"]
         /\ loadingStep' = "Locating and capturing view (Image)..."
         /\ vpc' = "image"
         /\ run' = [locationName |-> locationName, aspectRatio |-> aspectRatio]
         /\ submitted' = NULL
         /\ operation' = NULL
         /\ queries' = <<>>
         /\ replies' = <<>>
         /\ timers' = <<>>
         /\ videoRuns' = videoRuns + 1
         /\ vev' = [op |-> "handleGenerate"]
         /\ UNCHANGED <<locationName, aspectRatio>>

GenerateButtonEnabled == locationName # "" /\ videoState.status # "generating"

ClickGenerate ==
    /\ GenerateButtonEnabled /\ videoRuns < MaxRuns /\ handleGenerate
    /\ UNCHANGED <<travelVars, finderVars, pureVars>>

\* generateReferenceImage ends; on success generateDroneVideo submits the job
RefImageDone(resp) ==
    LET r == generateReferenceImage(resp) IN
    /\ vpc = "image"
    /\ IF r.ok
       THEN /\ loadingStep' = "Simulating drone flight physics (Veo 3.1)..."
            /\ submitted' =
                  [imageBytes |-> cleanBase64(r.value),
                   prompt |-> "Cinematic drone view of " \o run.locationName
                       \o ", realistic, high quality, 4k, continuous movement, detailed surroundings",
                   aspectRatio |-> run.aspectRatio]
            /\ vpc' = "submit"
            /\ UNCHANGED videoState
       ELSE /\ failGenerate(r)
            /\ UNCHANGED submitted
    /\ UNCHANGED <<locationName, aspectRatio, run, operation, queries, replies,
                   timers, videoRuns>>
    /\ vev' = [op |-> "refImage", resp |-> resp]

\* generateVideos ends
SubmitDone(resp) ==
    /\ vpc = "submit"
    /\ IF resp.ok
       THEN /\ operation' = resp.value
            /\ loopHead(resp.value)
       ELSE /\ failGenerate(CatchFormat(resp))
            /\ UNCHANGED operation
    /\ UNCHANGED <<locationName, aspectRatio, run, submitted, queries, replies,
                   timers, videoRuns>>
    /\ vev' = [op |-> "submit", resp |-> resp]

\* the wait of the loop ends and the status query is issued
TimerFires ==
    /\ vpc = "wait"
    /\ timers' = Append(timers, PollInterval)
    /\ queries' = Append(queries, operation)
    /\ vpc' = "poll"
    /\ vev' = [op |-> "timer"]
    /\ UNCHANGED <<locationName, videoState, aspectRatio, loadingStep, run,
                   submitted, operation, replies, videoRuns>>
    /\ UNCHANGED <<travelVars, finderVars, pureVars>>

\* getVideosOperation ends
PollDone(resp) ==
    /\ vpc = "poll"
    /\ IF resp.ok
       THEN /\ operation' = nextOperation(operation, resp.value)
            /\ replies' = Append(replies, resp.value)
            /\ loopHead(nextOperation(operation, resp.value))
       ELSE /\ failGenerate(CatchFormat(resp))
            /\ UNCHANGED <<operation, replies>>
    /\ UNCHANGED <<locationName, aspectRatio, run, submitted, queries, timers,
                   videoRuns>>
    /\ vev' = [op |-> "poll", resp |-> resp]

\* fetch of the download link: throws, or returns a response that is ok or not
FetchResponses ==
    {Thrown("Failed to fetch"), Returned([ok |-> FALSE]), Returned([ok |-> TRUE])}

\* the end of generateDroneVideo and of handleGenerate
FetchDone(resp) ==
    LET r == CatchFormat(IF ~resp.ok THEN resp
                         ELSE IF ~resp.value.ok
                         THEN Thrown("Failed to download video content")
                         ELSE Returned("blob:video-" \o ToString(videoRuns)))
    IN
    /\ vpc = "fetch"
    /\ IF r.ok
       THEN /\ videoState' = [status |-> "completed", videoUri |-> r.value]
            /\ loadingStep' = ""
            /\ vpc' = "idle"
       ELSE failGenerate(r)
    /\ UNCHANGED <<locationName, aspectRatio, run, submitted, operation, queries,
                   replies, timers, videoRuns>>
    /\ vev' = [op |-> "fetch", resp |-> resp]

\* a reset that also empties the entered location
handleChangeKeyClearsForm ==
    /\ videoState.status = "error"
    /\ videoState' = [status |-> "idle"]
    /\ locationName' = ""
    /\ vev' = [op |-> "handleChangeKey"]
    /\ UNCHANGED <<aspectRatio, loadingStep, vpc, run, submitted,
                   operation, queries, replies, timers, videoRuns>>
    /\ UNCHANGED <<travelVars, finderVars, pureVars>>

handleChangeKey ==
    /\ videoState.status = "error"
    /\ videoState' = [status |-> "idle"]
    /\ vev' = [op |-> "handleChangeKey"]
    /\ UNCHANGED <<locationName, aspectRatio, loadingStep, vpc, run, submitted,
                   operation, queries, replies, timers, videoRuns>>
    /\ UNCHANGED <<travelVars, finderVars, pureVars>>

SetLocationName(l) ==
    /\ l # locationName
    /\ locationName' = l
    /\ vev' = [op |-> "setLocationName"]
    /\ UNCHANGED <<videoState, aspectRatio, loadingStep, vpc, run, submitted,
                   operation, queries, replies, timers, videoRuns>>
    /\ UNCHANGED <<travelVars, finderVars, pureVars>>

SetAspectRatio(a) ==
    /\ a # aspectRatio
    /\ aspectRatio' = a
    /\ vev' = [op |-> "setAspectRatio"]
    /\ UNCHANGED <<locationName, videoState, loadingStep, vpc, run, submitted,
                   operation, queries, replies, timers, videoRuns>>
    /\ UNCHANGED <<travelVars, finderVars, pureVars>>

RefImageResolves ==
    /\ \E resp \in ImageResponses("ref" \o ToString(videoRuns)) : RefImageDone(resp)
    /\ UNCHANGED <<travelVars, finderVars, pureVars>>

SubmitResolves ==
    /\ \E resp \in {Thrown(m) : m \in RawErrors} \cup {Returned(h) : h \in Handles(0)} :
           SubmitDone(resp)
    /\ UNCHANGED <<travelVars, finderVars, pureVars>>

PollResolves ==
    /\ \E resp \in {Thrown(m) : m \in RawErrors}
                       \cup {Returned(h) : h \in Handles(Len(queries))} :
           PollDone(resp)
    /\ UNCHANGED <<travelVars, finderVars, pureVars>>

FetchResolves ==
    /\ \E resp \in FetchResponses : FetchDone(resp)
    /\ UNCHANGED <<travelVars, finderVars, pureVars>>

NextVideo ==
    \/ \E l \in LocationNames : SetLocationName(l)
    \/ \E a \in AspectRatios : SetAspectRatio(a)
    \/ ClickGenerate
    \/ RefImageResolves
    \/ SubmitResolves
    \/ TimerFires
    \/ PollResolves
    \/ FetchResolves
    \/ handleChangeKey

(***************************************************************************)
(* The search view (LocationSearch) inside App.                            *)
(***************************************************************************)
\* handleSearch runs that issue a request in one behaviour
MaxSubmits == 2

Queries == {"", " ", "Kyoto", " Kyoto "}

InitFinder ==
    /\ query = ""
    /\ lsLoading = FALSE
    /\ lsError = NULL
    /\ lsResult = NULL
    /\ currentLocation = NULL
    /\ mapsCalls = {}
    /\ found = <<>>
    /\ submits = 0
    /\ lev = [op |-> "init"]

\* a guard that tests the query as typed
canSearchUntrimmed(q) == q # ""

\* if (!query.trim()) return
canSearch(q) == trim(q) # ""

\* the synchronous part of handleSearch, up to its await
handleSearch ==
    IF ~canSearch(query)
    THEN /\ UNCHANGED <<query, lsLoading, lsError, lsResult, currentLocation,
                        mapsCalls, found, submits>>
         /\ lev' = [op |-> "handleSearch", started |-> FALSE, query |-> query]
    ELSE /\ lsLoading' = TRUE
         /\ lsResult' = NULL
         /\ lsError' = NULL
         /\ mapsCalls' = mapsCalls \cup {[query |-> query, n |-> submits + 1]}
         /\ submits' = submits + 1
         /\ UNCHANGED <<query, currentLocation, found>>
         /\ lev' = [op |-> "handleSearch", started |-> TRUE, query |-> query]

\* handleLocationFound of App
handleLocationFound(loc) == currentLocation' = loc

\* the rest of handleSearch, run when its request `c` ends with `resp`
SearchDone(c, resp) ==
    LET data == searchLocationWithMaps(resp) IN
    /\ mapsCalls' = mapsCalls \ {c}
    /\ IF data.ok
       THEN LET loc == [name |-> c.query,
                        mapLink |-> data.value.mapLink,
                        summary |-> data.value.text]
            IN  /\ lsResult' = data.value
                /\ handleLocationFound(loc)
                /\ found' = Append(found, loc)
                /\ UNCHANGED lsError
       ELSE /\ lsError' = Err(IF data.message # "" THEN data.message
                              ELSE "Failed to find location. Please try again.")
            /\ UNCHANGED <<lsResult, currentLocation, found>>
    /\ lsLoading' = FALSE
    /\ UNCHANGED <<query, submits>>
    /\ lev' = [op |-> "searchDone", query |-> c.query, resp |-> resp]

\* disabled={loading} of the submit button, the form's default button
SearchFormEnabled == ~lsLoading

SetQuery(q) ==
    /\ q # query
    /\ query' = q
    /\ lev' = [op |-> "setQuery"]
    /\ UNCHANGED <<lsLoading, lsError, lsResult, currentLocation, mapsCalls,
                   found, submits>>
    /\ UNCHANGED <<travelVars, videoVars, pureVars>>

SubmitSearch ==
    /\ SearchFormEnabled
    /\ submits < MaxSubmits
    /\ handleSearch
    /\ UNCHANGED <<travelVars, videoVars, pureVars>>

SearchResolves ==
    /\ \E c \in mapsCalls :
           \E resp \in {Thrown(m) : m \in RawErrors}
                           \cup {Returned(a) : a \in LocationAnswers} :
               SearchDone(c, resp)
    /\ UNCHANGED <<travelVars, videoVars, pureVars>>

NextFinder ==
    \/ \E q \in Queries : SetQuery(q)
    \/ SubmitSearch
    \/ SearchResolves

(***************************************************************************)
(* The functions of the service layer on their own: an upstream response   *)
(* is drawn, and the function is applied to it.                            *)
(***************************************************************************)
InitPure ==
    /\ upstream = <<>>
    /\ applied = FALSE
    /\ result = NULL

ApplySearchHiddenSpots ==
    /\ ~applied
    /\ applied' = TRUE
    /\ result' = searchHiddenSpots(Returned(stringifySpots(upstream, FALSE)))
    /\ UNCHANGED upstream
    /\ UNCHANGED <<travelVars, videoVars, finderVars>>

\* the words raw error texts are made of: the substrings formatError looks
\* for, and words it does not know
ErrorWords == {"API key", "authentication", "429", "503", "SAFETY", "quota", "timeout"}

\* the words of a raw error text: none (an Error with an empty message) up to maxLen
WordLists(maxLen) == UNION {[1..n -> ErrorWords] : n \in 0..maxLen}

\* the text of the words, joined by single spaces
RECURSIVE JoinWords(_)
JoinWords(words) ==
    IF Len(words) = 0 THEN ""
    ELSE IF Len(words) = 1 THEN words[1]
    ELSE words[1] \o " " \o JoinWords(Tail(words))

ApplyFormatError ==
    /\ ~applied
    /\ applied' = TRUE
    /\ result' = formatError(JoinWords(upstream))
    /\ UNCHANGED upstream
    /\ UNCHANGED <<travelVars, videoVars, finderVars>>

\* the texts a failing call may throw when a service function is taken on its
\* own: the raw errors, an Error without a message, and a blocked request
UpstreamErrors == RawErrors \cup {"", "Blocked: SAFETY"}

Failing == {Thrown(m) : m \in UpstreamErrors}

\* the loop of generateDroneVideo holding the handle op, with the replies its
\* status queries get, of which the last one ends the loop
RECURSIVE pollLoop(_, _)
pollLoop(op, polls) ==
    IF ~pollAgain(op) THEN afterPolling(op)
    ELSE IF ~Head(polls).ok THEN Head(polls)
    ELSE pollLoop(nextOperation(op, Head(polls).value), Tail(polls))

\* generateDroneVideo given what its calls answer: the submission, the status
\* queries in order, and the download
generateDroneVideo(submit, polls, download) ==
    CatchFormat(
        IF ~submit.ok THEN submit
        ELSE LET link == pollLoop(submit.value, polls) IN
             IF ~link.ok THEN link
             ELSE IF ~download.ok THEN download
             ELSE IF ~download.value.ok THEN Thrown("Failed to download video content")
             ELSE Returned("blob:video"))

\* the replies of n status queries: pending ones, then one that ends the loop
\* (a failure of the call, or a handle that is done)
PollReplies(n) ==
    {[k \in 1..n |-> IF k < n THEN Returned(Handle(k, FALSE, NULL, "")) ELSE last] :
        last \in Failing \cup {Returned(h) : h \in {g \in Handles(n) : g.done}}}

\* the submission fails or returns a job that is done, and no query is made; or
\* it returns a pending job, and 1..MaxPending queries are made
DroneVideoCalls ==
    {[fn |-> "generateDroneVideo", submit |-> s, polls |-> <<>>, download |-> d] :
         s \in Failing \cup {Returned(h) : h \in {g \in Handles(0) : g.done}},
         d \in FetchResponses}
    \cup {[fn |-> "generateDroneVideo", submit |-> Returned(Handle(0, FALSE, NULL, "")),
           polls |-> p, download |-> d] :
         p \in UNION {PollReplies(n) : n \in 1..MaxPending},
         d \in FetchResponses}

\* one call of a function of the service layer and what its external calls answer
ServiceCalls ==
    {[fn |-> "searchLocationWithMaps", answer |-> r] :
         r \in Failing \cup {Returned(a) : a \in LocationAnswers}}
    \cup {[fn |-> "generateDeepTravelItinerary", resp |-> r] :
         r \in Failing \cup {Returned(t) : t \in PlanTexts}}
    \cup {[fn |-> "searchHiddenSpots", resp |-> r] :
         r \in Failing \cup {Returned(t) : t \in SpotTexts(MaxFanOut)}}
    \cup {[fn |-> "generateReferenceImage", image |-> r] :
         r \in Failing \cup ImageResponses("ref")}
    \cup DroneVideoCalls

CallService(c) ==
    CASE c.fn = "searchLocationWithMaps" -> searchLocationWithMaps(c.answer)
      [] c.fn = "generateDeepTravelItinerary" -> generateDeepTravelItinerary(c.resp)
      [] c.fn = "searchHiddenSpots" -> searchHiddenSpots(c.resp)
      [] c.fn = "generateReferenceImage" -> generateReferenceImage(c.image)
      [] c.fn = "generateDroneVideo" -> generateDroneVideo(c.submit, c.polls, c.download)

ApplyService ==
    /\ ~applied
    /\ applied' = TRUE
    /\ result' = CallService(upstream)
    /\ UNCHANGED upstream
    /\ UNCHANGED <<travelVars, videoVars, finderVars>>

(***************************************************************************)
(* Specifications.                                                         *)
(***************************************************************************)
\* the other views at rest
VideoIdle == InitVideo /\ locationName = ""

InitSearch == InitTravel /\ VideoIdle /\ InitFinder /\ InitPure

InitVideoView == InitTravel /\ location = "" /\ InitVideo /\ InitFinder /\ InitPure

InitSpots ==
    /\ InitTravel /\ location = ""
    /\ VideoIdle
    /\ InitFinder
    /\ upstream \in SpotArrays(MaxUpstream)
    /\ applied = FALSE
    /\ result = NULL

\* the searches of the travel view and their image fan-outs
SpecSearch == InitSearch /\ [][NextSearch]_vars

\* the searches of the travel view and its chat
SpecChat == InitSearch /\ [][NextChat]_vars

\* the same, with handleSendMessage called as a function
SpecDirect == InitSearch /\ [][NextDirect]_vars

\* the search view
InitFinderView == InitTravel /\ location = "" /\ VideoIdle /\ InitFinder /\ InitPure

SpecFinder == InitFinderView /\ [][NextFinder]_vars

\* the drone-video view
SpecVideo == InitVideoView /\ [][NextVideo]_vars

\* the drone-video view when every external call returns: each awaited promise
\* of a run (image, submission, timer, status query, download) is settled
VideoCallsReturn ==
    /\ WF_vars(RefImageResolves)
    /\ WF_vars(SubmitResolves)
    /\ WF_vars(TimerFires)
    /\ WF_vars(PollResolves)
    /\ WF_vars(FetchResolves)

SpecVideoFair == InitVideoView /\ [][NextVideo]_vars /\ VideoCallsReturn

\* searchHiddenSpots applied to every upstream array of up to MaxUpstream items
SpecSpots == InitSpots /\ [][ApplySearchHiddenSpots]_vars

InitFormat ==
    /\ InitTravel /\ location = ""
    /\ VideoIdle
    /\ InitFinder
    /\ upstream \in WordLists(MaxWords)
    /\ applied = FALSE
    /\ result = NULL

\* formatError applied to every raw error text of up to MaxWords words
SpecFormat == InitFormat /\ [][ApplyFormatError]_vars

InitService ==
    /\ InitTravel /\ location = ""
    /\ VideoIdle
    /\ InitFinder
    /\ upstream \in ServiceCalls
    /\ applied = FALSE
    /\ result = NULL

\* each function of the service layer that formats its failures, applied to
\* what its external calls may answer
SpecService == InitService /\ [][ApplyService]_vars

(***************************************************************************)
(* Properties.                                                             *)
(***************************************************************************)
Min(a, b) == IF a < b THEN a ELSE b

IsBlank(s) == \A i \in 1..Len(s) : SubSeq(s, i, i) \in {" ", "\t", "\n", "\r"}

\* C1: searchHiddenSpots applied to an upstream array of n well-formed items
\* returns exactly the first min(n, 5) of them, in upstream order.
C1_FirstFiveSpots ==
    applied =>
        /\ result.ok
        /\ Len(result.value) = Min(Len(upstream), 5)
        /\ \A i \in 1..Len(result.value) : result.value[i] = upstream[i]

\* an upstream array of more than five items has been cut to its first five
C1_Truncated ==
    /\ applied
    /\ Len(upstream) > 5
    /\ result.ok
    /\ result.value = SubSeq(upstream, 1, 5)

\* C2: once the newest search is a handleDeepPlan run whose structured request
\* has produced a plan and whose three preview requests have all failed,
\* travelData is set, error is null, images is empty and imagesLoading is false.
C2_PlanWithoutPreviews ==
    (/\ newest.kind = "plan"
     /\ newest.text = "ok"
     /\ newest.previews = "resolved"
     /\ \A i \in 1..3 : newest.results[i] = NULL)
    => (/\ travelData # NULL
        /\ error = NULL
        /\ images = <<>>
        /\ imagesLoading = FALSE)

RECURSIVE DoneFlags(_)
DoneFlags(handles) ==
    IF Len(handles) = 0 THEN <<>>
    ELSE <<Head(handles).done>> \o DoneFlags(Tail(handles))

\* C3: every status query follows one wait of the fixed interval and carries the
\* handle returned by the call before it (the submission for the first query),
\* no query is issued with a handle that is done, and when the job is reported
\* pending twice and then done, exactly three queries and three waits are made.
C3_PollingLoop ==
    /\ Len(timers) = Len(queries)
    /\ \A k \in 1..Len(timers) : timers[k] = 5000
    /\ Len(replies) \in {Len(queries), Len(queries) - 1}
    /\ \A k \in 1..Len(queries) :
          /\ ~queries[k].done
          /\ queries[k].serial = k - 1
          /\ k > 1 => queries[k] = replies[k - 1]
    /\ (operation # NULL /\ operation.done) => vpc \notin {"wait", "poll"}
    /\ DoneFlags(replies) = <<FALSE, FALSE, TRUE>> =>
          /\ Len(queries) = 3
          /\ Len(timers) = 3
          /\ vpc \notin {"wait", "poll"}

\* a job reported pending twice and then done with a video, which was fetched
C3_ThreeQueries ==
    /\ DoneFlags(replies) = <<FALSE, FALSE, TRUE>>
    /\ replies[3].error = NULL
    /\ Len(queries) = 3
    /\ videoState.status = "completed"

JobFailed ==
    /\ videoState.status = "error"
    /\ operation # NULL
    /\ operation.done
    /\ operation.error # NULL

\* the job's error text reaches the view as it is
C4_Verbatim == JobFailed => videoState.error = operation.error.message

\* C4: when the job ends in error, videoState.error is the job's error text
\* ("Video generation failed" when that text is empty) as formatError renders
\* it: the fixed message of its class when the text contains "API key",
\* "authentication", "429", "503" or "SAFETY", else the text after the prefix
\* "AI Request Failed: ".
C4_Formatted ==
    JobFailed =>
        LET m == IF operation.error.message # "" THEN operation.error.message
                 ELSE "Video generation failed"
        IN  videoState.error =
                IF includes(m, "API key") \/ includes(m, "authentication")
                THEN "Authentication failed. Please check your API key settings."
                ELSE IF includes(m, "429")
                THEN "Rate limit exceeded. The API is busy, please wait a moment and try again."
                ELSE IF includes(m, "503")
                THEN "Service overloaded or unavailable. Please try again later."
                ELSE IF includes(m, "SAFETY")
                THEN "The request was blocked due to safety settings."
                ELSE "AI Request Failed: " \o m

\* a job failed with a text of no known class, shown behind the prefix
C4_Prefixed ==
    /\ JobFailed
    /\ operation.error.message = "Quota exceeded"
    /\ videoState.error = "AI Request Failed: Quota exceeded"

\* C5: handleSendMessage called while chatRef is null, or while the input is
\* empty or whitespace only, sends no request and changes no transcript,
\* input or loading state.
C5_SendIsNoOp ==
    [][(ev'.op = "handleSendMessage" /\ (chatRef = NULL \/ IsBlank(chatInput)))
         => (/\ chatCalls' = chatCalls
             /\ chatsSent' = chatsSent
             /\ chatMessages' = chatMessages
             /\ chatInput' = chatInput
             /\ chatLoading' = chatLoading
             /\ chatRef' = chatRef)]_vars

\* handleSendMessage has just returned early with a text typed but no session
C5_NoSession ==
    /\ ev = [op |-> "handleSendMessage", sent |-> FALSE]
    /\ chatRef = NULL
    /\ chatInput = "hi"
    /\ chatCalls = {}

\* C6: images, imagesLoading and hiddenSpotImages hold only what the most
\* recently started search produced: every image carries the number of that
\* search, and imagesLoading is true while its preview batch is outstanding.
C6_OnlyNewestSearch ==
    /\ \A i \in 1..Len(images) :
          images[i] \in {[uri |-> "data:image/png;base64," \o ImageData(searches, ToString(k))]
                            : k \in 1..3}
    /\ \A n \in DOMAIN hiddenSpotImages :
          hiddenSpotImages[n] = [uri |-> "data:image/png;base64," \o ImageData(searches, n)]
    /\ (newest.kind = "plan" /\ newest.previews = "pending") => imagesLoading

\* C7: the callbacks pending for one state slot all belong to one invocation:
\* the preview batches that will write images and imagesLoading come from one
\* search, and so do the spot-image requests that will write hiddenSpotImages.
C7_OneWriterPerSlot ==
    /\ \A b1, b2 \in previewCalls : b1.gen = b2.gen
    /\ \A c1, c2 \in spotCalls : c1.gen = c2.gen
    /\ Cardinality(textCalls) <= 1

\* C8: a chat session exists only after the structured request of the newest
\* search has ended, its system instruction embeds the serialization of the
\* travelData on display and of nothing else, and at the moment the plan
\* arrives the session is a new one and the transcript is the greeting alone.
C8_SessionOfThePlan ==
    /\ [](loading => chatRef = NULL)
    /\ [](chatRef # NULL =>
            /\ mode = "plan"
            /\ chatRef.id = sessions
            /\ chatRef.systemInstruction =
                   createTravelChat(JSONstringify(travelData)).systemInstruction)
    /\ [][(ev'.op = "planText" /\ error' = NULL) =>
             /\ sessions' = sessions + 1
             /\ chatRef' # NULL
             /\ chatRef'.id = sessions'
             /\ travelData' = JSONparse(ev'.resp.value).value
             /\ chatMessages' = <<Greeting>>]_vars

\* the plan of a second search has arrived and opened the second session
C8_SecondSession ==
    /\ ev.op = "planText"
    /\ error = NULL
    /\ travelData = PlanShort
    /\ chatRef # NULL
    /\ chatRef.id = 2
    /\ chatMessages = <<Greeting>>

\* the message appended when a chat request ends is the reply on success and
\* the fixed apology on failure
C9_ReplyOrApology ==
    ev.op = "chatDone" =>
        chatMessages[Len(chatMessages)] =
            [role |-> "model",
             text |-> IF ev.resp.ok THEN ev.resp.value
                      ELSE "Sorry, I encountered an error answering that."]

\* C9: chatLoading is true exactly while a chat request is outstanding; a send
\* appends the user message and issues one request carrying that text alone;
\* the end of the request appends exactly one model message: the reply when it
\* is not empty, "I couldn't generate a response." when it is empty, and the
\* fixed apology, never the error's text, when the request failed.
C9_ChatRoundTrip ==
    /\ [](chatLoading <=> chatCalls # {})
    /\ [](Cardinality(chatCalls) <= 1)
    /\ [][/\ (ev'.op = "handleSendMessage" /\ ev'.sent) =>
                /\ chatMessages' = Append(chatMessages, [role |-> "user", text |-> chatInput])
                /\ \E c \in chatCalls' :
                      /\ chatCalls = {}
                      /\ chatCalls' = {c}
                      /\ c.message = chatInput
                      /\ c.session = chatRef.id
          /\ ev'.op = "chatDone" =>
                /\ chatCalls # {}
                /\ chatCalls' = {}
                /\ chatMessages' = Append(chatMessages,
                       [role |-> "model",
                        text |-> IF ~ev'.resp.ok
                                 THEN "Sorry, I encountered an error answering that."
                                 ELSE IF ev'.resp.value = ""
                                 THEN "I couldn't generate a response."
                                 ELSE ev'.resp.value])]_vars

\* a chat request has ended with an empty reply, answered by the fallback text
C9_EmptyReply ==
    /\ ev.op = "chatDone"
    /\ ev.resp.ok
    /\ ev.resp.value = ""
    /\ chatMessages[Len(chatMessages)] =
           [role |-> "model", text |-> "I couldn't generate a response."]
    /\ chatMessages[Len(chatMessages) - 1].role = "user"
    /\ ~chatLoading

\* C10: when the structured itinerary response is empty or cannot be parsed,
\* travelData is null, there is no chat session, the transcript is empty and
\* error holds the message of the malformed response.
C10_MalformedPlanFails ==
    (ev.op = "planText" /\ ev.resp.ok /\ ev.resp.value \in {"", "oops"}) =>
        /\ travelData = NULL
        /\ chatRef = NULL
        /\ chatMessages = <<>>
        /\ error # NULL
        /\ error.message =
              IF ev.resp.value = ""
              THEN "AI Request Failed: The model returned an empty response."
              ELSE "AI Request Failed: Failed to parse the travel plan data."

\* C11: every plan that generateDeepTravelItinerary has returned carries a
\* crowd_curve of exactly 12 entries, one per calendar month in order, each
\* with a score from 0 to 100.
C11_TwelveMonthCurve ==
    travelData # NULL =>
        LET curve == travelData.weather.crowd_curve IN
        /\ Len(curve) = 12
        /\ \A i \in 1..Len(curve) :
              /\ curve[i].month = Months[i]
              /\ curve[i].score \in 0..100

NoInlineImage(parts) == \A i \in 1..Len(parts) : "inlineData" \notin DOMAIN parts[i]

RefImageFailed ==
    /\ vev.op = "refImage"
    /\ ~vev.resp.ok \/ NoInlineImage(vev.resp.value)

\* C12: when the reference-image call throws or returns no inline image, the
\* run is over with videoState in error and a message; and a run that has
\* made no job request holds no job handle and has issued no status query.
C12_NoImageNoJob ==
    /\ RefImageFailed =>
          /\ vpc = "idle"
          /\ videoState.status = "error"
          /\ videoState.error # ""
          /\ submitted = NULL
    /\ submitted = NULL =>
          /\ vpc \in {"idle", "image"}
          /\ operation = NULL
          /\ queries = <<>>
          /\ replies = <<>>
          /\ timers = <<>>

\* the reference-image call returned a response without an image
C12_EmptyImageResponse ==
    /\ vev.op = "refImage"
    /\ vev.resp.ok
    /\ vev.resp.value = <<>>
    /\ videoState = [status |-> "error", error |-> "AI Request Failed: No image generated"]
    /\ submitted = NULL
    /\ queries = <<>>

\* the handle is done and reports an error, or is done without a result URI
JobEndedBadly(h) == h.done /\ (h.error # NULL \/ h.uri = "")

\* the call that ended last failed its stage of the video pipeline
StageFailed ==
    \/ RefImageFailed
    \/ vev.op \in {"submit", "poll"} /\ (~vev.resp.ok \/ JobEndedBadly(vev.resp.value))
    \/ vev.op = "fetch" /\ (~vev.resp.ok \/ ~vev.resp.value.ok)

\* C13: after a failure of any stage (reference image, job submission, a
\* status query, a job that ends in error or without a result URI, the
\* download) the run is over, videoState.status is 'error' with a non-empty
\* message, and loadingStep is empty.
C13_FailureEndsInError ==
    StageFailed =>
        /\ vpc = "idle"
        /\ videoState.status = "error"
        /\ videoState.error # ""
        /\ loadingStep = ""

\* the download of a finished video was refused
C13_DownloadRefused ==
    /\ vev.op = "fetch"
    /\ vev.resp.ok
    /\ ~vev.resp.value.ok
    /\ videoState =
          [status |-> "error", error |-> "AI Request Failed: Failed to download video content"]
    /\ loadingStep = ""

\* C14: handleChangeKey runs only in the error state, sets videoState to idle,
\* leaves locationName and aspectRatio as entered, and starts no run: no
\* handleGenerate is counted, no job request, query or wait is added.
C14_ChangeKeyResets ==
    [][vev'.op = "handleChangeKey" =>
          /\ videoState.status = "error"
          /\ videoState' = [status |-> "idle"]
          /\ locationName' = locationName
          /\ aspectRatio' = aspectRatio
          /\ vpc = "idle" /\ vpc' = "idle"
          /\ videoRuns' = videoRuns
          /\ submitted' = submitted
          /\ queries' = queries
          /\ timers' = timers
          /\ loadingStep' = loadingStep]_vars

\* the action was taken after a failed run for a portrait video
C14_AfterFailedRun ==
    /\ vev.op = "handleChangeKey"
    /\ videoState = [status |-> "idle"]
    /\ locationName = "Grand Canyon"
    /\ aspectRatio = "9:16"
    /\ run.aspectRatio = "9:16"
    /\ vpc = "idle"

\* C15: the status is one of idle, generating, completed, error; it becomes
\* completed or error only from generating, becomes generating only in a
\* handleGenerate step, becomes idle only from error; the job request is made
\* only in the step in which the reference image arrives, with that image;
\* and status completed carries a videoUri.
C15_StatusMachine ==
    /\ [](videoState.status \in {"idle", "generating", "completed", "error"})
    /\ [](videoState.status = "completed" =>
             "videoUri" \in DOMAIN videoState /\ videoState.videoUri # "")
    /\ [](videoState.status = "generating" <=> vpc # "idle")
    /\ [][/\ (videoState' # videoState /\ videoState'.status \in {"completed", "error"})
                => videoState.status = "generating"
          /\ (videoState' # videoState /\ videoState'.status = "generating")
                => vev'.op = "handleGenerate"
          /\ (videoState' # videoState /\ videoState'.status = "idle")
                => videoState.status = "error"
          /\ (submitted' # submitted /\ submitted' # NULL)
                => /\ vpc = "image"
                   /\ vev'.op = "refImage"
                   /\ vev'.resp.ok
                   /\ \E i \in 1..Len(vev'.resp.value) :
                         /\ "inlineData" \in DOMAIN vev'.resp.value[i]
                         /\ submitted'.imageBytes = vev'.resp.value[i].inlineData.data]_vars

\* a second run, started after the first had ended, has completed
C15_SecondRunCompleted ==
    /\ videoRuns = 2
    /\ videoState = [status |-> "completed", videoUri |-> "blob:video-2"]
    /\ submitted # NULL
    /\ submitted.imageBytes = "ref2"
    /\ vpc = "idle"

NonNull(x) == x # NULL

\* C16: in a handleDeepPlan run the end of the structured request sets
\* travelData or error from its response alone and touches neither images nor
\* imagesLoading; the end of the preview batch sets images to its non-null
\* results and touches neither travelData, error nor loading; so with one
\* search, once both have ended, the state is the same in either order.
C16_StreamsIndependent ==
    /\ [][/\ ev'.op = "planText" =>
                /\ images' = images
                /\ imagesLoading' = imagesLoading
                /\ loading' = FALSE
                /\ IF ev'.resp.ok /\ ev'.resp.value # "" /\ JSONparse(ev'.resp.value).ok
                   THEN /\ travelData' = JSONparse(ev'.resp.value).value
                        /\ error' = NULL
                   ELSE /\ travelData' = NULL
                        /\ error' # NULL
          /\ ev'.op = "preview" =>
                /\ travelData' = travelData
                /\ error' = error
                /\ loading' = loading
                /\ chatMessages' = chatMessages
                /\ (\A k \in 1..3 : ev'.results[k] # PENDING) =>
                      /\ images' = SelectSeq(ev'.results, NonNull)
                      /\ imagesLoading' = FALSE]_vars
    /\ []((/\ searches = 1
           /\ newest.kind = "plan"
           /\ newest.text # "pending"
           /\ newest.previews = "resolved")
          => (/\ images = SelectSeq(newest.results, NonNull)
              /\ ~imagesLoading
              /\ ~loading
              /\ newest.text = "ok" => (travelData # NULL /\ error = NULL)
              /\ newest.text = "failed" => (travelData = NULL /\ error # NULL)))

\* the images of the run arrived first and its plan after them
C16_ImagesBeforeText ==
    /\ ev.op = "planText"
    /\ searches = 1
    /\ newest.text = "ok"
    /\ newest.previews = "resolved"
    /\ Len(images) = 3
    /\ travelData = PlanKyoto
    /\ ~loading

\* the plan is on display while the images of the run are outstanding
C16_TextBeforeImages ==
    /\ searches = 1
    /\ newest.text = "ok"
    /\ newest.previews = "pending"
    /\ travelData # NULL
    /\ ~loading
    /\ imagesLoading

\* C17: while the preview batch of the newest plan search is outstanding,
\* imagesLoading is true.
C17_LoadingWhileOutstanding ==
    \A b \in previewCalls : b.gen = searches => imagesLoading

\* C18: a spot-image request exists only for a search whose list request has
\* ended; starting handleHiddenSpots issues none; the end of the list request
\* issues exactly one per returned spot, for that spot's name, and none when
\* it failed; and the end of a spot-image request never touches error or
\* hiddenSpots, and adds no entry to hiddenSpotImages when it brought no image.
C18_SpotImagesAfterList ==
    /\ [](\A c \in spotCalls : \A t \in textCalls : t.gen # c.gen)
    /\ [][/\ ev'.op = "handleHiddenSpots" => spotCalls' = spotCalls
          /\ ev'.op = "hiddenText" =>
                IF error' = NULL
                THEN /\ spotCalls \cap (spotCalls' \ spotCalls) = {}
                     /\ Cardinality(spotCalls' \ spotCalls) = Len(hiddenSpots')
                     /\ \A i \in 1..Len(hiddenSpots') :
                           \E c \in spotCalls' \ spotCalls :
                               /\ c.gen = ev'.gen
                               /\ c.index = i
                               /\ c.name = hiddenSpots'[i].name
                ELSE spotCalls' = spotCalls /\ hiddenSpots' = NULL
          /\ ev'.op = "spotImage" =>
                /\ error' = error
                /\ hiddenSpots' = hiddenSpots
                /\ loading' = loading
                /\ Cardinality(spotCalls') = Cardinality(spotCalls) - 1
                /\ (~ev'.resp.ok \/ NoInlineImage(ev'.resp.value))
                      => hiddenSpotImages' = hiddenSpotImages]_vars

\* of two spots, one image request has ended without an image
C18_SpotWithoutImage ==
    /\ ev.op = "spotImage"
    /\ ev.gen = searches
    /\ ev.resp.ok
    /\ ev.resp.value = <<>>
    /\ newest.kind = "hidden"
    /\ newest.text = "ok"
    /\ Len(hiddenSpots) = 2
    /\ Cardinality(spotCalls) = 1
    /\ DOMAIN hiddenSpotImages = {}
    /\ error = NULL

\* the image a response carries: the data of its first inline part behind the
\* data-URI prefix, or NULL when the call threw or no part carries data
CarriedImage(resp) ==
    IF ~resp.ok \/ NoInlineImage(resp.value) THEN NULL
    ELSE LET j == CHOOSE j \in 1..Len(resp.value) :
                     /\ "inlineData" \in DOMAIN resp.value[j]
                     /\ \A h \in 1..(j - 1) : "inlineData" \notin DOMAIN resp.value[h]
         IN  [uri |-> "data:image/png;base64," \o resp.value[j].inlineData.data]

\* C19: each preview request contributes its own image or nothing and leaves
\* the entries of the other two alone; when the third has ended the batch
\* resolves, never with an error, with the at most 3 images that were carried,
\* in prompt order.
C19_PreviewsFiltered ==
    [][ev'.op = "preview" =>
          /\ ev'.results[ev'.index] = CarriedImage(ev'.resp)
          /\ \E b \in previewCalls :
                /\ b.gen = ev'.gen
                /\ b.results[ev'.index] = PENDING
                /\ \A k \in 1..3 : k # ev'.index => ev'.results[k] = b.results[k]
          /\ error' = error
          /\ (\A k \in 1..3 : ev'.results[k] # PENDING) =>
                /\ images' = SelectSeq(ev'.results, NonNull)
                /\ Len(images') <= 3
                /\ \A b \in previewCalls' : b.gen # ev'.gen]_vars

\* the sunset request failed; the daytime and the aerial image are on display
C19_MiddleOneMissing ==
    /\ ev.op = "preview"
    /\ ev.gen = 1
    /\ ev.results[2] = NULL
    /\ images = <<[uri |-> "data:image/png;base64,g1/1"],
                  [uri |-> "data:image/png;base64,g1/3"]>>
    /\ error = NULL

IsImage(x) == x # NULL /\ x # PENDING

\* C20: while the preview batch of the newest plan search is outstanding,
\* images holds the images of the requests that have already ended with one.
C20_ImagesGrow ==
    \A b \in previewCalls :
        b.gen = searches => images = SelectSeq(b.results, IsImage)

\* C21: a step changes the transcript only by a reset (the start of a search
\* empties it, the arrival of a plan sets it to the greeting) or by appending
\* one message at its end, every earlier message keeping position and content.
C21_TranscriptAppendOnly ==
    [][chatMessages' # chatMessages =>
          \/ ev'.op \in {"handleDeepPlan", "handleHiddenSpots"} /\ chatMessages' = <<>>
          \/ ev'.op = "planText" /\ chatMessages' = <<Greeting>>
          \/ /\ ev'.op \in {"handleSendMessage", "chatDone"}
             /\ Len(chatMessages') = Len(chatMessages) + 1
             /\ SubSeq(chatMessages', 1, Len(chatMessages)) = chatMessages]_vars

\* a reply has arrived after a second message had been appended behind the
\* one it answers, and the reply to the second is still outstanding
C21_ReplyAfterLaterMessage ==
    /\ ev.op = "chatDone"
    /\ Len(chatMessages) = 4
    /\ chatMessages[1] = Greeting
    /\ chatMessages[2].role = "user"
    /\ chatMessages[3].role = "user"
    /\ chatMessages[4].role = "model"
    /\ chatCalls # {}

\* C22: a Retry step issues one structured request, of the orchestrator that
\* failed and for the location string the failed run was started with.
C22_RetrySameInputs ==
    [][control' = "Retry" =>
          \E c \in textCalls' :
              /\ c \notin textCalls
              /\ c.kind = newest.kind
              /\ c.location = newest.location]_vars

HasWord(w) == \E i \in 1..Len(upstream) : upstream[i] = w

\* C23: formatError gives a raw error text the message of the first rule it
\* matches, in the order: 'API key' or 'authentication', then '429', then
\* '503', then 'SAFETY'; a text that matches none comes back unchanged behind
\* 'AI Request Failed: ' (the raw text of an Error without a message being
\* its toString(), "Error").
C23_FirstMatchingRule ==
    applied =>
        result =
            IF HasWord("API key") \/ HasWord("authentication")
            THEN "Authentication failed. Please check your API key settings."
            ELSE IF HasWord("429")
            THEN "Rate limit exceeded. The API is busy, please wait a moment and try again."
            ELSE IF HasWord("503")
            THEN "Service overloaded or unavailable. Please try again later."
            ELSE IF HasWord("SAFETY")
            THEN "The request was blocked due to safety settings."
            ELSE "AI Request Failed: "
                     \o (IF Len(upstream) = 0 THEN "Error" ELSE JoinWords(upstream))

\* a text that matches the last three rules got the message of the 429 rule
C23_RateLimitWins ==
    /\ applied
    /\ upstream = <<"SAFETY", "503", "429">>
    /\ result = "Rate limit exceeded. The API is busy, please wait a moment and try again."

\* C24: when every external call returns and the job ends after finitely many
\* pending reports, a started handleGenerate run eventually leaves "generating"
\* for "completed" or "error" with loadingStep cleared; the loop itself has no
\* attempt bound: after every pending report the run is still "generating",
\* waits again, and its next step is another status query.
C24_RunTerminates ==
    /\ (videoState.status = "generating")
           ~> (videoState.status \in {"completed", "error"} /\ loadingStep = "")
    /\ [][vev'.op = "poll" /\ vev'.resp.ok /\ ~vev'.resp.value.done =>
              /\ videoState'.status = "generating"
              /\ loadingStep' # ""
              /\ vpc' = "wait"]_vars
    /\ [](vpc = "wait" => videoState.status = "generating" /\ ENABLED TimerFires)
    /\ [](videoState.status = "generating" <=> vpc # "idle")

\* a run that was told "pending" as often as the service allows, and completed
C24_CompletedAfterPending ==
    /\ videoState.status = "completed"
    /\ loadingStep = ""
    /\ Len(replies) >= 2
    /\ \A k \in 1..(Len(replies) - 1) : ~replies[k].done
    /\ replies[Len(replies)].done

\* the four messages formatError has for the errors it knows
FixedMessages ==
    {"Authentication failed. Please check your API key settings.",
     "Rate limit exceeded. The API is busy, please wait a moment and try again.",
     "Service overloaded or unavailable. Please try again later.",
     "The request was blocked due to safety settings."}

NoFailure == [failed |-> FALSE, text |-> ""]
Raised(text) == [failed |-> TRUE, text |-> text]

\* the handle on which the polling of a generateDroneVideo call ended
LastHandle(c) == IF Len(c.polls) = 0 THEN c.submit ELSE c.polls[Len(c.polls)]

\* the error first raised in a call of the service layer, by one of its external
\* calls or by the function itself, before any catch has seen it
Original(c) ==
    CASE c.fn = "searchLocationWithMaps" ->
            IF ~c.answer.ok THEN Raised(c.answer.message)
            ELSE IF c.answer.value.text = ""
            THEN Raised("No information found for this location.")
            ELSE NoFailure
      [] c.fn = "generateDeepTravelItinerary" ->
            IF ~c.resp.ok THEN Raised(c.resp.message)
            ELSE IF c.resp.value = "" THEN Raised("The model returned an empty response.")
            ELSE IF ~JSONparse(c.resp.value).ok
            THEN Raised("Failed to parse the travel plan data.")
            ELSE NoFailure
      [] c.fn = "searchHiddenSpots" ->
            IF ~c.resp.ok THEN Raised(c.resp.message)
            ELSE IF c.resp.value = "" THEN Raised("No results found for hidden spots.")
            ELSE IF JSONparse(c.resp.value).kind # "array"
            THEN Raised("Failed to parse hidden spots data.")
            ELSE NoFailure
      [] c.fn = "generateReferenceImage" ->
            IF ~c.image.ok THEN Raised(c.image.message)
            ELSE IF NoInlineImage(c.image.value) THEN Raised("No image generated")
            ELSE NoFailure
      [] c.fn = "generateDroneVideo" ->
            IF ~c.submit.ok THEN Raised(c.submit.message)
            ELSE IF ~LastHandle(c).ok THEN Raised(LastHandle(c).message)
            ELSE IF LastHandle(c).value.error # NULL
            THEN Raised(IF LastHandle(c).value.error.message = ""
                        THEN "Video generation failed"
                        ELSE LastHandle(c).value.error.message)
            ELSE IF LastHandle(c).value.uri = "" THEN Raised("No video URI returned")
            ELSE IF ~c.download.ok THEN Raised(c.download.message)
            ELSE IF ~c.download.value.ok THEN Raised("Failed to download video content")
            ELSE NoFailure

\* C25: a call of searchLocationWithMaps, generateDeepTravelItinerary,
\* searchHiddenSpots, generateReferenceImage or generateDroneVideo fails exactly
\* when one of its external calls throws or the function raises an error itself,
\* and the message it fails with is formatError of that error, applied once: one
\* of the four fixed messages or "AI Request Failed: " followed by the error's
\* text, never that text alone and never a formatted message formatted again.
C25_FormattedOnce ==
    applied =>
        LET o == Original(upstream) IN
        IF ~o.failed THEN result.ok
        ELSE /\ ~result.ok
             /\ result.message = formatError(o.text)
             /\ result.message \in
                    FixedMessages \cup {"AI Request Failed: " \o ErrorText(o.text)}
             /\ result.message # o.text
             /\ ~startsWith(result.message, "AI Request Failed: AI Request Failed: ")
             /\ \A f \in FixedMessages : result.message # "AI Request Failed: " \o f

\* a job that was pending, then done with a link, whose download was refused
C25_DownloadRefused ==
    /\ applied
    /\ upstream.fn = "generateDroneVideo"
    /\ Len(upstream.polls) = 2
    /\ upstream.download.ok /\ ~upstream.download.value.ok
    /\ result = Thrown("AI Request Failed: Failed to download video content")

\* the newest search is the only one so far, a hidden-spots search whose list
\* came back, and no two of its spots have the same name
OneSearchDistinctNames ==
    /\ searches = 1
    /\ newest.kind = "hidden"
    /\ newest.text = "ok"
    /\ \A i, j \in 1..Len(hiddenSpots) :
          i # j => hiddenSpots[i].name # hiddenSpots[j].name

\* C26: the end of a spot-image request that brought an image adds the entry of
\* its own spot name to hiddenSpotImages and leaves every other entry as it was
\* (one that brought none changes nothing); so, for one hidden-spots search
\* whose spots have distinct names, the map is at every moment determined by
\* the outcomes of the requests that have ended, whatever their order: a spot
\* has an entry exactly when its request ended with an image, the entry is that
\* image, and the keys are among the names of the returned spots, at most 5.
C26_SpotImagesOrderFree ==
    /\ [][ev'.op = "spotImage" =>
              IF CarriedImage(ev'.resp) = NULL
              THEN hiddenSpotImages' = hiddenSpotImages
              ELSE /\ DOMAIN hiddenSpotImages' = DOMAIN hiddenSpotImages \cup {ev'.name}
                   /\ hiddenSpotImages'[ev'.name] = CarriedImage(ev'.resp)
                   /\ \A k \in DOMAIN hiddenSpotImages \ {ev'.name} :
                         hiddenSpotImages'[k] = hiddenSpotImages[k]]_vars
    /\ [](OneSearchDistinctNames =>
              /\ DOMAIN hiddenSpotImages \subseteq
                     {hiddenSpots[i].name : i \in 1..Len(hiddenSpots)}
              /\ Cardinality(DOMAIN hiddenSpotImages) <= 5
              /\ \A i \in 1..Len(hiddenSpots) :
                    IF IsImage(newest.results[i])
                    THEN /\ hiddenSpots[i].name \in DOMAIN hiddenSpotImages
                         /\ hiddenSpotImages[hiddenSpots[i].name] = newest.results[i]
                    ELSE hiddenSpots[i].name \notin DOMAIN hiddenSpotImages)

\* both images of a two-spot search are in the map, the second spot's request
\* having ended before the first one's
C26_SecondSpotFirst ==
    /\ OneSearchDistinctNames
    /\ Len(hiddenSpots) = 2
    /\ spotCalls = {}
    /\ ev.op = "spotImage"
    /\ ev.name = hiddenSpots[1].name
    /\ DOMAIN hiddenSpotImages = {"a", "b"}
    /\ hiddenSpotImages[hiddenSpots[1].name] = newest.results[1]
    /\ hiddenSpotImages[hiddenSpots[2].name] = newest.results[2]
    /\ newest.results[1] # newest.results[2]

\* C27: at most one structured request of handleDeepPlan or handleHiddenSpots is
\* outstanding at any time; a search button or Retry is used only while loading
\* is false; and loading is true exactly while such a request is outstanding:
\* a run that starts sets it with the request it issues, a handler that returns
\* at once leaves it false, and the end of the request clears it.
C27_OneSearchInFlight ==
    /\ [](Cardinality(textCalls) <= 1)
    /\ [](loading <=> textCalls # {})
    /\ [](loading => ~SearchButtonsEnabled /\ ~RetryRendered)
    /\ [][/\ control' \in {"Full Plan", "Hidden Spots", "Retry"} =>
                /\ ~loading
                /\ textCalls = {}
                /\ IF ev'.started
                   THEN loading' /\ Cardinality(textCalls') = 1
                   ELSE ~loading' /\ textCalls' = {}
          /\ ev'.op \in {"planText", "hiddenText"} =>
                loading /\ ~loading' /\ textCalls' = {}
          /\ loading' # loading =>
                \/ ev'.op \in {"handleDeepPlan", "handleHiddenSpots"}
                \/ ev'.op \in {"planText", "hiddenText"}]_vars

\* a second run, started with Retry after the first one failed, is in flight
C27_RetryInFlight ==
    /\ control = "Retry"
    /\ searches = 2
    /\ loading
    /\ Cardinality(textCalls) = 1
    /\ \A c \in textCalls : c.gen = 2

\* C28: once the newest search is a handleDeepPlan run that has finished
\* (loading is false), exactly one of travelData and error is non-null, and a
\* chat session exists (chatRef non-null and a non-empty transcript) exactly
\* when travelData is non-null.
C28_PlanOrError ==
    (newest.kind = "plan" /\ ~loading) =>
        /\ (travelData # NULL) # (error # NULL)
        /\ (chatRef # NULL /\ Len(chatMessages) > 0) <=> (travelData # NULL)

\* C29: a chat reply, or the apology for a failed request, is appended only
\* while the session its message was sent in is still the current one; so every
\* model message of the transcript is the greeting at its head or directly
\* follows a user message.
C29_RepliesStayInSession ==
    /\ [](\A i \in 1..Len(chatMessages) :
             chatMessages[i].role = "model" =>
                 \/ i = 1 /\ chatMessages[1] = Greeting
                 \/ i > 1 /\ chatMessages[i - 1].role = "user")
    /\ [][ev'.op = "chatDone" => (chatRef # NULL /\ chatRef.id = ev'.session)]_vars

\* the request of a search run came back with a text
LocationWasFound(resp) == resp.ok /\ resp.value.text # ""

\* C30: a submit of the search form with an empty or whitespace-only query
\* changes no state of the search view or of App and issues no request; any
\* other submit issues one request for the query as typed; when the request
\* ends, loading is false and exactly one of result and error is set: with a
\* location found, result is set and onLocationFound is called once more, with
\* name equal to the submitted query; otherwise error is set, result is null
\* and onLocationFound is not called.
C30_SearchRun ==
    /\ [][/\ (lev'.op = "handleSearch" /\ IsBlank(query)) =>
                UNCHANGED <<query, lsLoading, lsError, lsResult, currentLocation,
                            mapsCalls, found, submits>>
          /\ (lev'.op = "handleSearch" /\ ~IsBlank(query)) =>
                /\ lsLoading'
                /\ \E c \in mapsCalls' :
                      /\ c.query = query
                      /\ mapsCalls' = mapsCalls \cup {c}
                      /\ c \notin mapsCalls
                /\ found' = found
          /\ lev'.op = "searchDone" =>
                /\ ~lsLoading'
                /\ (lsResult' # NULL) # (lsError' # NULL)
                /\ IF LocationWasFound(lev'.resp)
                   THEN /\ lsResult' # NULL
                        /\ lsResult'.text = lev'.resp.value.text
                        /\ Len(found') = Len(found) + 1
                        /\ SubSeq(found', 1, Len(found)) = found
                        /\ found'[Len(found')].name = lev'.query
                        /\ currentLocation' = found'[Len(found')]
                   ELSE /\ lsError' # NULL
                        /\ lsResult' = NULL
                        /\ found' = found
                        /\ currentLocation' = currentLocation]_vars
    /\ [](Cardinality(mapsCalls) <= 1 /\ (lsLoading <=> mapsCalls # {}))
    /\ [](~(lsResult # NULL /\ lsError # NULL))

\* a query typed with spaces around it was found; a second, blank submit did nothing
C30_FoundAsTyped ==
    /\ lev.op = "handleSearch"
    /\ ~lev.started
    /\ IsBlank(query) /\ query # ""
    /\ ~lsLoading
    /\ lsResult # NULL
    /\ lsResult.mapLink = "https://maps/b"
    /\ Len(found) = 1
    /\ found[1].name = " Kyoto "
    /\ currentLocation = found[1]

====
